---- MODULE Spec2Model ----
(***************************************************************************)
(* ProWaveDAQ acquisition-to-persistence pipeline:                         *)
(*   src/src/prowavedaq.py  ProWaveDAQ  (poll loop, hand-off queue)        *)
(*   src/src/main.py        start/stop/status handlers, collection_loop    *)
(*   src/src/csv_writer.py  CSVWriter   (segment files, sample clock)      *)
(*                                                                         *)
(* A sample value is represented by the position (1, 2, 3, ...) of its     *)
(* word in the device's FIFO stream, so that loss, duplication and         *)
(* reordering of values are visible.                                       *)
(***************************************************************************)
EXTENDS Integers, Sequences, FiniteSets, TLC

\* ------------------------------------------------------------------ bounds
\* Number of acquisition runs (accepted start requests) that are modelled.
MaxRuns == 1

\* Words the batches fed to the segmentation step hold in total (SpecSeg).
SegWords == 9

\* Words the device FIFO delivers while two clients race.
RaceWords == 3

\* Words the device FIFO delivers while the device is faulty.
FaultWords == 3

\* Words the device FIFO delivers while one client runs an acquisition.
QueueWords == 9

\* Longest batch, in words, that is fed to the segmentation step (SpecSeg).
SegMaxBatch == 7

\* Largest segment budget target_size drawn in SpecSeg.
SegMaxTarget == 6

\* Request-handler threads of the control surface that run concurrently.
NumHandlers == 2

\* Stand-in for the queue capacity, queue.Queue(maxsize=1000).
QueueMaxSize == 2

\* Stand-in for MAX_FIFO_SAMPLES = 41, the samples read in one transaction.
MaxFifoSamples == 2

\* Largest FIFO length the device reports.
MaxFifoLen == 4

\* Device transactions and connection attempts that fail, in total.
MaxDevFaults == 5

\* Largest SaveUnit/second value in Master.ini.
MaxSaveUnit == 1

\* sampleRate of ProWaveDAQ.ini, chosen small so that segments fill up.
ConfigSampleRate == 1

\* File I/O failures (a raising write, flush, fsync, close or open), in total.
MaxIoFaults == 1

\* Stand-in for the small backlog, in words, below which the device's buffer
\* counts as flushed at the start of a run (one sample)
FlushThreshold == 3

\* SaveUnit of the run in progress where current_data_size is followed
RmwSaveUnit == 2

\* Words the device delivers where current_data_size is followed
RmwWords == 6

\* Runs started one after the other when a stop is followed by a start
RestartRuns == 2

\* Longest block of raw register values given to the conversion
MaxRawLen == 4

\* Stand-in for the live-preview cap of 10000 values (main.py line 59).
PreviewCap == 4

\* The files of a writer that SpecUnit follows
MaxUnitFiles == 5

\* The samples in the largest batch SpecPreview takes, and the words it
\* takes in all
PreviewMaxSamples == 2
PreviewWords == 12

\* ------------------------------------------------------- program constants
\* channels = 3 in start_collection; ProWaveDAQ.CHANNEL_COUNT
CHANNEL_COUNT == 3

\* CSVWriter.__init__ default sample_rate (main.py passes none)
DEFAULT_SAMPLE_RATE == 7812

\* datetime.now() at CSVWriter.__init__, in microseconds (an arbitrary instant)
StartInstant == 250000

\* max_consecutive_errors in _read_loop
MAX_CONSECUTIVE_ERRORS == 5

\* MAX_DATA_WORDS = MAX_FIFO_SAMPLES * CHANNEL_COUNT
MAX_DATA_WORDS == MaxFifoSamples * CHANNEL_COUNT

\* the 0.0 that add_data_block appends in place of a missing channel value
Pad == 0

\* The run slots: as many as the longest sequence of runs considered
Runs == 1..(IF MaxRuns > RestartRuns THEN MaxRuns ELSE RestartRuns)

Handlers == 1..NumHandlers

\* The label of a start request: missing, or some text.
Labels == {"", "run"}

VARIABLES
    is_collecting,        \* main.py global
    daq_instance,         \* main.py global: 0 (None) or the id of the driver
    csv_writer_instance,  \* main.py global: 0 (None) or the id of the writer
    realtime_data,        \* main.py global: live-preview buffer
    data_counter,         \* main.py global
    target_size,          \* main.py global
    current_data_size,    \* main.py global
    request_recent,       \* time.time() - last_data_request_time < 5 s
    writers,              \* the CSVWriter objects, by run
    cons,                 \* the collection_loop threads, by run
    next_word,            \* position of the next word the device delivers
    device_words,         \* words the device will still produce
    dev_faults_left,      \* device transactions and connects that can still fail
    io_faults_left,       \* file I/O calls that can still raise
    daq,                  \* the ProWaveDAQ objects and their poll threads, by run
    handler,              \* the request-handler threads of the control surface
    free_runs,            \* run slots no start request has taken yet
    response              \* history: the latest response of the control surface

vars == <<is_collecting, daq_instance, csv_writer_instance, realtime_data,
          data_counter, target_size, current_data_size, request_recent,
          writers, cons, next_word, device_words, dev_faults_left,
          io_faults_left, daq, handler,
          free_runs, response>>

\* The device's stream
devVars == <<next_word, device_words, dev_faults_left>>

\* The control surface
ctlVars == <<handler, free_runs, response>>

\* The globals of main.py
mainVars == <<is_collecting, daq_instance, csv_writer_instance, realtime_data,
              data_counter, target_size, current_data_size, request_recent>>

\* ------------------------------------------------------------------ helpers
Min(a, b) == IF a < b THEN a ELSE b

Max(a, b) == IF a > b THEN a ELSE b

\* <<a, a+1, ..., a+n-1>>
Span(a, n) == [i \in 1..n |-> a + i - 1]

\* Python data[:k] (a negative k counts from the end)
PySlicePrefix(data, k) ==
    LET n == Len(data)
        stop == IF k >= 0 THEN Min(k, n) ELSE Max(n + k, 0)
    IN  SubSeq(data, 1, stop)

\* Python data[k:] (a negative k counts from the end)
PySliceSuffix(data, k) ==
    LET n == Len(data)
        start == IF k >= 0 THEN Min(k, n) ELSE Max(n + k, 0)
    IN  SubSeq(data, start + 1, n)

\* ---------------------------------------------------------------- CSVWriter
\* timedelta(seconds = k * (1.0 / sample_rate)) in whole microseconds
\* (rounded to the nearest microsecond; binary floating-point error is not
\* modelled).
ElapsedMicros(k, rate) == (2 * k * 1000000 + rate) \div (2 * rate)

\* A writer slot before CSVWriter(...) has been called for that run.  History
\* fields: rows_built, handed (see add_data_block) and closes, the number of
\* close() calls made on the writer.
NoWriter ==
    [created |-> FALSE, channels |-> CHANNEL_COUNT,
     sample_rate |-> DEFAULT_SAMPLE_RATE, file_counter |-> 1,
     current_file |-> 0, writer |-> 0, global_start_time |-> 0,
     global_sample_count |-> 0, files |-> <<>>, rows_built |-> 0,
     handed |-> <<>>, closes |-> 0]

\* _create_new_file as it would be if only the first file of a run were
\* given the header row
CreateNewFile_HeaderOnFirst(w, openOk) ==
    IF openOk
    THEN LET f == [counter |-> w.file_counter, open |-> TRUE,
                   header |-> (w.file_counter = 1),
                   synced |-> FALSE, rows |-> <<>>]
         IN  [w EXCEPT !.files = Append(@, f),
                       !.current_file = Len(w.files) + 1,
                       !.writer = Len(w.files) + 1]
    ELSE w

\* CSVWriter._create_new_file: open a file named by file_counter, bind the
\* csv writer to it, write the header row and flush.  When open() raises,
\* current_file and writer keep their previous values.
CreateNewFile(w, openOk) ==
    IF openOk
    THEN LET f == [counter |-> w.file_counter, open |-> TRUE, header |-> TRUE,
                   synced |-> FALSE, rows |-> <<>>]
         IN  [w EXCEPT !.files = Append(@, f),
                       !.current_file = Len(w.files) + 1,
                       !.writer = Len(w.files) + 1]
    ELSE w

\* CSVWriter.__init__
NewWriter(channels, sample_rate, now, openOk) ==
    CreateNewFile([NoWriter EXCEPT !.created = TRUE,
                                   !.channels = channels,
                                   !.sample_rate = sample_rate,
                                   !.global_start_time = now], openOk)

\* The rows add_data_block builds from data: one per group of `channels`
\* values, the last one completed with Pad; row i is stamped from
\* global_sample_count + i - 1.  seq_no is a history field: the number of
\* rows this writer had built before the row.
BuildRows(w, data) ==
    LET ch == w.channels
        nrows == (Len(data) + ch - 1) \div ch
    IN  [i \in 1..nrows |->
            [ts |-> w.global_start_time
                      + ElapsedMicros(w.global_sample_count + i - 1, w.sample_rate),
             vals |-> [j \in 1..ch |->
                          IF (i - 1) * ch + j <= Len(data)
                          THEN data[(i - 1) * ch + j] ELSE Pad],
             seq_no |-> w.rows_built + i - 1]]

\* add_data_block as it would be if it did not advance the sample clock
AddDataBlock_ClockStalls(w, data, ioOk) ==
    LET logged == [w EXCEPT !.handed = Append(@, [seg |-> w.file_counter,
                                                  data |-> data])]
        rows == BuildRows(w, data)
        stored == ioOk /\ logged.files[w.writer].open
    IN  IF w.writer = 0 \/ data = <<>>
        THEN logged
        ELSE [logged EXCEPT
                !.rows_built = @ + Len(rows),
                !.files[w.writer].rows = IF stored THEN @ \o rows ELSE @]

\* CSVWriter.add_data_block.  ioOk: writerows did not raise.  `handed` is a
\* history field: every slice passed in, with the segment number current at
\* the call.
AddDataBlock(w, data, ioOk) ==
    LET logged == [w EXCEPT !.handed = Append(@, [seg |-> w.file_counter,
                                                  data |-> data])]
        rows == BuildRows(w, data)
        stored == ioOk /\ logged.files[w.writer].open
    IN  IF w.writer = 0 \/ data = <<>>
        THEN logged
        ELSE [logged EXCEPT
                !.global_sample_count = @ + Len(rows),
                !.rows_built = @ + Len(rows),
                !.files[w.writer].rows = IF stored THEN @ \o rows ELSE @]

\* flush, os.fsync, close of the current file inside try/except: when one of
\* them raises (closeOk = FALSE, or the file object is already closed) the
\* error is reported and the file is left as it is.
FlushSyncClose(w, closeOk) ==
    IF w.current_file # 0 /\ closeOk /\ w.files[w.current_file].open
    THEN [w EXCEPT !.files[w.current_file].synced = TRUE,
                   !.files[w.current_file].open = FALSE]
    ELSE w

\* update_filename as it would be if the sample clock restarted with each file
UpdateFilename_ResetsClock(w, closeOk, openOk) ==
    LET closed == FlushSyncClose(w, closeOk)
    IN  CreateNewFile([closed EXCEPT !.file_counter = @ + 1,
                                     !.global_sample_count = 0], openOk)

\* update_filename as it would be if an error of flush, fsync or close left it
\* through the exception, before file_counter += 1
UpdateFilename_LeavesOnError(w, closeOk, openOk) ==
    IF closeOk
    THEN CreateNewFile([FlushSyncClose(w, closeOk)
                            EXCEPT !.file_counter = @ + 1], openOk)
    ELSE w

\* update_filename as it would be if file_counter advanced only once the new
\* file had been opened
UpdateFilename_CountsOpenedOnly(w, closeOk, openOk) ==
    LET closed == FlushSyncClose(w, closeOk)
    IN  IF openOk
        THEN CreateNewFile([closed EXCEPT !.file_counter = @ + 1], openOk)
        ELSE closed

\* CSVWriter.update_filename
UpdateFilename(w, closeOk, openOk) ==
    LET closed == FlushSyncClose(w, closeOk)
    IN  CreateNewFile([closed EXCEPT !.file_counter = @ + 1], openOk)

\* close as it would be if it kept its reference to the file
CloseWriter_KeepsFile(w, closeOk) == FlushSyncClose(w, closeOk)

\* CSVWriter.close
CloseWriter(w, closeOk) ==
    IF w.current_file # 0
    THEN [FlushSyncClose(w, closeOk) EXCEPT !.current_file = 0, !.writer = 0]
    ELSE w

\* The outcomes a file I/O call can have: it succeeds (TRUE) or, while the
\* environment's fault budget lasts, raises (FALSE).
IoOutcomes == IF io_faults_left > 0 THEN BOOLEAN ELSE {TRUE}

\* The outcomes of the three I/O steps of one rotation pass (append, close of
\* the old file, open of the new one): at most one of them raises.
IoOutcomes3 ==
    {oks \in [1..3 -> IoOutcomes] : Cardinality({i \in 1..3 : ~oks[i]}) <= 1}

\* The fault budget after a call with outcome ok
Faulted(ok) == IF ok THEN io_faults_left ELSE io_faults_left - 1

\* ------------------------------------------------------------------ main.py
\* update_realtime_data as it would be if the cap kept the oldest values
MirrorPreview_KeepsOldest(buf, data, active) ==
    IF active
    THEN LET ext == buf \o data
         IN  IF Len(ext) > PreviewCap THEN SubSeq(ext, 1, PreviewCap) ELSE ext
    ELSE buf

\* update_realtime_data: the buffer after mirroring data into it
MirrorPreview(buf, data, active) ==
    IF active
    THEN LET ext == buf \o data
         IN  IF Len(ext) > PreviewCap
             THEN SubSeq(ext, Len(ext) - PreviewCap + 1, Len(ext))
             ELSE ext
    ELSE buf

\* A collection_loop thread that has not been started.  pc, data and
\* empty_space are the thread's position and locals; loaded is the value of
\* current_data_size the thread has read for the += of line 360, where that
\* is taken in two steps.  History fields: lens,
\* the lengths of the batches it has taken; reset_at, how many batches it
\* had taken when start_collection last reset the counters; before, the
\* segment state when it began to account its latest batch (lines 359-360).
NoConsumer ==
    [pc |-> "off", data |-> <<>>, empty_space |-> 0, loaded |-> 0,
     lens |-> <<>>, reset_at |-> 0,
     before |-> [size |-> 0, seg |-> 0, handed |-> 0]]

\* data_lock is held by no request handler (get_realtime_data holds it while
\* it copies the buffer)
DataLockFree == \A h \in Handlers : handler[h].pc # "d_copy"

\* collection_loop line 356: update_realtime_data(data); `with data_lock`
\* (line 55) waits until the lock is free.
ConsumerMirror(r) ==
    /\ cons[r].pc = "mirror"
    /\ DataLockFree
    /\ realtime_data' = MirrorPreview(realtime_data, cons[r].data, request_recent)
    /\ data_counter' = data_counter + Len(cons[r].data)
    /\ cons' = [cons EXCEPT ![r].pc = "proc"]
    /\ UNCHANGED <<is_collecting, daq_instance, csv_writer_instance, target_size,
                   current_data_size, request_recent, writers, devVars, io_faults_left, daq, ctlVars>>

\* empty_space as it would be if the room were computed one element short
EmptySpace_OffByOne(target, cur, n) == target - (cur - n) - 1

\* empty_space = target_size - (current_data_size - data_actual_size), where
\* cur is current_data_size after the += len(data)
EmptySpace(target, cur, n) == target - (cur - n)

\* The test of line 362 as it would be with <= in place of <
FitsCurrentSegment_Inclusive(cur, target) == cur <= target

\* `if current_data_size < target_size` (line 362)
FitsCurrentSegment(cur, target) == cur < target

\* collection_loop lines 359-369 by the thread at position `at`, with base
\* the value of current_data_size that `current_data_size += len(data)` adds
\* to: account the batch; write it whole when the segment is not yet full,
\* otherwise compute empty_space and enter the rotation loop.
ConsumerAccount(r, at, base) ==
    /\ cons[r].pc = at
    /\ LET data == cons[r].data
           n == Len(data)
           cur == base + n
           wi == csv_writer_instance
       IN  IF wi = 0
           THEN /\ cons' = [cons EXCEPT ![r].pc = "fetch"]
                /\ UNCHANGED <<current_data_size, writers, io_faults_left>>
           ELSE /\ current_data_size' = cur
                /\ LET snap == [size |-> base,
                                seg |-> writers[wi].file_counter,
                                handed |-> Len(writers[wi].handed)]
                   IN  IF FitsCurrentSegment(cur, target_size)
                       THEN /\ \E ioOk \in IoOutcomes :
                                  /\ writers' = [writers EXCEPT
                                         ![wi] = AddDataBlock(@, data, ioOk)]
                                  /\ io_faults_left' = Faulted(ioOk)
                            /\ cons' = [cons EXCEPT ![r].pc = "fetch",
                                                    ![r].before = snap]
                       ELSE /\ cons' = [cons EXCEPT
                                          ![r].pc = "rot",
                                          ![r].before = snap,
                                          ![r].empty_space =
                                              EmptySpace(target_size, cur, n)]
                            /\ UNCHANGED <<writers, io_faults_left>>
    /\ UNCHANGED <<is_collecting, daq_instance, csv_writer_instance,
                   realtime_data, data_counter, target_size, request_recent,
                   devVars, daq, ctlVars>>

\* collection_loop lines 359-369, with the += of line 360 taken as one step
ConsumerProc(r) == ConsumerAccount(r, "proc", current_data_size)

\* The += of line 360 is a load, an add and a store of the global.  The load:
\* the thread keeps the value it read (after the test of line 359).
ConsumerLoad(r) ==
    /\ cons[r].pc = "proc"
    /\ cons' = [cons EXCEPT
                  ![r].pc = IF csv_writer_instance = 0 THEN "fetch" ELSE "store",
                  ![r].loaded = current_data_size]
    /\ UNCHANGED <<mainVars, writers, devVars, io_faults_left, daq, ctlVars>>

\* The store of line 360, from the value loaded, and lines 362-369
ConsumerStore(r) == ConsumerAccount(r, "store", cons[r].loaded)

\* The slice written in one pass of `while current_data_size >= target_size`
RotationSlice(data, empty_space) == PySlicePrefix(data, empty_space)

\* The slice written after the rotation loop
RemainingSlice(data, empty_space) == PySliceSuffix(data, empty_space)

\* collection_loop lines 372-389: one test of the rotation loop's condition.
\* True: write data[:empty_space], rotate, subtract target_size.  False:
\* write data[empty_space:] if pending is non-zero and set current_data_size.
ConsumerRot(r) ==
    /\ cons[r].pc = "rot"
    /\ LET data == cons[r].data
           es == cons[r].empty_space
           wi == csv_writer_instance
           pending == Len(data) - es
       IN  IF current_data_size >= target_size
           THEN /\ \E oks \in IoOutcomes3 :
                      /\ writers' = [writers EXCEPT
                             ![wi] = UpdateFilename(
                                         AddDataBlock(@, RotationSlice(data, es), oks[1]),
                                         oks[2], oks[3])]
                      /\ io_faults_left' = Faulted(oks[1] /\ oks[2] /\ oks[3])
                /\ current_data_size' = current_data_size - target_size
                /\ UNCHANGED cons
           ELSE /\ IF pending # 0
                   THEN /\ \E ioOk \in IoOutcomes :
                              /\ writers' = [writers EXCEPT
                                     ![wi] = AddDataBlock(@, RemainingSlice(data, es), ioOk)]
                              /\ io_faults_left' = Faulted(ioOk)
                        /\ current_data_size' = pending
                   ELSE /\ current_data_size' = 0
                        /\ UNCHANGED <<writers, io_faults_left>>
                /\ cons' = [cons EXCEPT ![r].pc = "fetch"]
    /\ UNCHANGED <<is_collecting, daq_instance, csv_writer_instance,
                   realtime_data, data_counter, target_size, request_recent,
                   devVars, daq, ctlVars>>

\* --------------------------------------------------------------- ProWaveDAQ
\* A driver slot before ProWaveDAQ() has been called for that run.  client:
\* "none" (self.client is None) or "open".  thread: the state of
\* reading_thread.  pc, consecutive_errors, fifo_len and samples are the
\* position and locals of _read_loop (samples stays until the next batch is
\* queued); raw_block is the block of raw register values the conversion is
\* given, kept only where the values of the words matter.  History fields: got, the first words of the batches get_data
\* returned; snap, the queue when the latest put_nowait raised Full;
\* disturbed, a get by another thread on the queue since then; closed_by_stop,
\* stop_reading has run _disconnect; used_after_close, _read_loop opened or
\* used a connection after that; io_failed, the latest pass of _read_loop had
\* a transaction or a connection attempt fail; fatal, _read_loop left through
\* one of its `break`s.
NoDaq ==
    [created |-> FALSE, client |-> "none", reading |-> FALSE, thread |-> "none",
     counter |-> 0, data_queue |-> <<>>, sample_rate |-> DEFAULT_SAMPLE_RATE,
     pc |-> "off", consecutive_errors |-> 0, fifo_len |-> 0, samples |-> <<>>,
     raw_block |-> <<>>, got |-> <<>>, snap |-> <<>>, disturbed |-> FALSE, closed_by_stop |-> FALSE,
     used_after_close |-> FALSE, io_failed |-> FALSE, fatal |-> FALSE]

\* The outcomes a device transaction can have: it succeeds (TRUE) or, while
\* the environment's fault budget lasts, fails.  A negative budget stands for
\* a device that has stopped answering: every transaction fails from then on.
DevOutcomes ==
    IF dev_faults_left < 0 THEN {FALSE}
    ELSE IF dev_faults_left > 0 THEN BOOLEAN ELSE {TRUE}

\* The outcomes of is_connected() and of connect(), which open or test the
\* serial port and exchange nothing with the device: they come out of the
\* same fault budget, and go either way once the device has stopped answering.
PortOutcomes == IF dev_faults_left < 0 THEN BOOLEAN ELSE DevOutcomes

\* The outcomes of a transaction that is attempted only with a client
TxOutcomes(attempted) == IF attempted THEN DevOutcomes ELSE {TRUE}

\* The fault budget after an attempt with outcome ok
DevFaulted(ok) ==
    IF ok \/ dev_faults_left < 0 THEN dev_faults_left ELSE dev_faults_left - 1

\* queue.Queue(maxsize): put_nowait raises Full
QueueFull(q) == Len(q) >= QueueMaxSize

\* put_nowait as it would be if the queue were a stack
QueuePut_AtFront(q, samples) == <<samples>> \o q

\* put_nowait(samples) that does not raise
QueuePut(q, samples) == Append(q, samples)

\* The eviction as it would be if it removed the newest batch
QueueEvict_Newest(q) == SubSeq(q, 1, Len(q) - 1)

\* The queue after the get_nowait of line 572 (the eviction)
QueueEvict(q) == Tail(q)

\* ProWaveDAQ.get_data: <<the batch returned ([] when empty), the queue after>>
GetData(q) == IF q = <<>> THEN <<(<<>>), q>> ELSE <<Head(q), Tail(q)>>

\* The conversion as it would be if it kept every word it was given
ConvertRaw_KeepAll(raw_block) == raw_block

\* _convert_raw_to_float_samples: only the leading whole XYZ groups are kept
ConvertRaw(raw_block) ==
    SubSeq(raw_block, 1, (Len(raw_block) \div CHANNEL_COUNT) * CHANNEL_COUNT)

\* The raw values a 16-bit Modbus register can carry
RawWords == 0..65535

\* The sign conversion as it would be with <= in place of <
Signed_ThresholdInclusive(w) == IF w <= 32768 THEN w ELSE w - 65536

\* signed = w if w < 32768 else w - 65536
Signed(w) == IF w < 32768 THEN w ELSE w - 65536

\* signed / 8192.0, as the fraction num / den.  The quotient of an integer
\* below 2^15 in magnitude by 2^13 is exact in binary floating point.
FloatSample(signed) == [num |-> signed, den |-> 8192]

\* _convert_raw_to_float_samples on the values of the words
ConvertRawToFloatSamples(raw_block) ==
    LET data_words == ConvertRaw(raw_block)
    IN  [i \in 1..Len(data_words) |-> FloatSample(Signed(data_words[i]))]

\* The consecutive-error accounting of _read_loop after a failure it counts:
\* one more error; at max_consecutive_errors the loop breaks, otherwise it
\* sleeps and continues.
CountError(d) ==
    LET n == d.consecutive_errors + 1
    IN  IF n >= MAX_CONSECUTIVE_ERRORS
        THEN [d EXCEPT !.consecutive_errors = n, !.pc = "exit", !.fatal = TRUE]
        ELSE [d EXCEPT !.consecutive_errors = n, !.pc = "top"]

\* `while self.reading:` (line 525)
PollTop(r) ==
    /\ daq[r].pc = "top"
    /\ daq' = [daq EXCEPT ![r].pc = IF daq[r].reading THEN "ensure" ELSE "exit",
                          ![r].io_failed = FALSE]
    /\ UNCHANGED <<mainVars, writers, cons, devVars, io_faults_left, ctlVars>>

\* lines 527-534: _ensure_connected().  With a client present is_connected()
\* answers; without one, or when the link is reported lost (linkUp = FALSE),
\* _connect() opens a new connection, which can fail.  A lost link and a
\* failed connect each come out of the fault budget, at most one per pass.
PollEnsure(r) ==
    /\ daq[r].pc = "ensure"
    /\ \E linkUp \in PortOutcomes, connectOk \in PortOutcomes :
          LET d == daq[r]
              connects == d.client = "none" \/ ~linkUp
              seen == [d EXCEPT !.used_after_close =
                                    @ \/ (connects /\ connectOk /\ d.closed_by_stop)]
          IN  /\ (d.client = "none" => linkUp)
              /\ (~connects => connectOk)
              /\ dev_faults_left' = DevFaulted(linkUp /\ connectOk)
              /\ daq' = [daq EXCEPT ![r] =
                     IF ~connects THEN [seen EXCEPT !.pc = "fifo"]
                     ELSE IF connectOk
                          THEN [seen EXCEPT !.client = "open", !.pc = "fifo"]
                          ELSE CountError([seen EXCEPT !.client = "none",
                                                       !.io_failed = TRUE])]
    /\ UNCHANGED <<mainVars, writers, cons, next_word, device_words,
                   io_faults_left, ctlVars>>

\* The test of line 539 as it would be if a length of 0 went on to the read
NoData_OnlyNegative(fifo_len) == fifo_len < 0

\* `if fifo_len <= 0` (line 539): nothing to read in this iteration
NoData(fifo_len) == fifo_len <= 0

\* lines 538-542: _read_fifo_length().  Without a client it returns 0; a
\* failed transaction (queryOk = FALSE) is reported and returns 0; otherwise
\* the device's count len.  A length of 0 or less restarts the loop.
PollFifoLength(r) ==
    /\ daq[r].pc = "fifo"
    /\ \E queryOk \in TxOutcomes(daq[r].client # "none"),
          len \in 0..Min(MaxFifoLen, device_words) :
          LET d == daq[r]
              failed == d.client # "none" /\ ~queryOk
              fifo_len == IF d.client = "none" \/ failed THEN 0 ELSE len
              seen == [d EXCEPT !.io_failed = failed,
                                !.used_after_close =
                                    @ \/ (d.client # "none" /\ d.closed_by_stop)]
          IN  /\ (d.client = "none" \/ failed => len = 0)
              /\ (d.client = "none" => queryOk)
              /\ dev_faults_left' = DevFaulted(queryOk)
              /\ daq' = [daq EXCEPT ![r] =
                     IF NoData(fifo_len) THEN [seen EXCEPT !.pc = "top"]
                     ELSE [seen EXCEPT !.pc = "raw", !.fifo_len = fifo_len]]
    /\ UNCHANGED <<mainVars, writers, cons, next_word, device_words,
                   io_faults_left, ctlVars>>

\* _read_raw_block line 426: the word count of the request,
\* data_len = max(0, min(data_len, self.MAX_DATA_WORDS))
RequestWords(data_len) == Max(0, Min(data_len, MAX_DATA_WORDS))

\* lines 545-580: _read_raw_block(fifo_len), the conversion and the first
\* put_nowait.  The read asks for min(fifo_len, MAX_DATA_WORDS) words; it
\* fails without a client, on a transaction error, or when fewer words come
\* back.  On success the device has handed over that many words.
PollReadBlock(r) ==
    /\ daq[r].pc = "raw"
    /\ \E readOk \in TxOutcomes(daq[r].client # "none") :
          LET d == daq[r]
              data_len == RequestWords(d.fifo_len)
              ok == d.client # "none" /\ readOk /\ data_len <= device_words
              samples == ConvertRaw(Span(next_word, data_len))
              seen == [d EXCEPT !.used_after_close =
                                    @ \/ (d.client # "none" /\ d.closed_by_stop)]
              good == [seen EXCEPT !.consecutive_errors = 0]
          IN  /\ (d.client = "none" => readOk)
              /\ dev_faults_left' = DevFaulted(readOk)
              /\ next_word' = IF ok THEN next_word + data_len ELSE next_word
              /\ device_words' = IF ok THEN device_words - data_len
                                 ELSE device_words
              /\ daq' = [daq EXCEPT ![r] =
                     IF ~ok
                     THEN CountError([seen EXCEPT !.io_failed = d.client # "none"])
                     ELSE IF samples = <<>> THEN [good EXCEPT !.pc = "top"]
                     ELSE IF QueueFull(d.data_queue)
                          THEN [good EXCEPT !.pc = "evict", !.samples = samples,
                                            !.snap = d.data_queue,
                                            !.disturbed = FALSE]
                          ELSE [good EXCEPT
                                  !.pc = "top", !.samples = <<>>,
                                  !.snap = <<>>, !.disturbed = FALSE,
                                  !.data_queue = QueuePut(@, samples),
                                  !.counter = @ + 1]]
    /\ UNCHANGED <<mainVars, writers, cons, io_faults_left, ctlVars>>

\* lines 570-577, first half: the queue was full, get_nowait removes the
\* oldest batch; if the queue has been emptied meanwhile, queue.Empty is
\* caught, the new batch is dropped and the counter is still incremented.
PollEvict(r) ==
    /\ daq[r].pc = "evict"
    /\ daq' = [daq EXCEPT ![r] =
           IF daq[r].data_queue = <<>>
           THEN [@ EXCEPT !.pc = "top", !.counter = @ + 1, !.samples = <<>>,
                          !.snap = <<>>, !.disturbed = FALSE]
           ELSE [@ EXCEPT !.pc = "put2", !.data_queue = QueueEvict(@)]]
    /\ UNCHANGED <<mainVars, writers, cons, devVars, io_faults_left, ctlVars>>

\* lines 574-580: the second put_nowait, then the counter.  (Only this
\* thread puts, so the queue has room.)
PollPutAgain(r) ==
    /\ daq[r].pc = "put2"
    /\ ~QueueFull(daq[r].data_queue)
    /\ daq' = [daq EXCEPT ![r].pc = "top",
                          ![r].data_queue = QueuePut(@, daq[r].samples),
                          ![r].counter = @ + 1]
    /\ UNCHANGED <<mainVars, writers, cons, devVars, io_faults_left, ctlVars>>

\* lines 592-594: the loop has ended; self.reading = False and the thread ends.
PollExit(r) ==
    /\ daq[r].pc = "exit"
    /\ daq' = [daq EXCEPT ![r].pc = "done", ![r].reading = FALSE,
                          ![r].thread = "dead"]
    /\ UNCHANGED <<mainVars, writers, cons, devVars, io_faults_left, ctlVars>>

\* ----------------------------------------------------- collection_loop, top
\* `while is_collecting:` (line 348)
ConsumerTop(r) ==
    /\ cons[r].pc = "top"
    /\ cons' = [cons EXCEPT ![r].pc = IF is_collecting THEN "fetch" ELSE "done"]
    /\ UNCHANGED <<mainVars, writers, devVars, io_faults_left, daq, ctlVars>>

\* lines 351 and 392: data = daq_instance.get_data(); an empty result ends the
\* inner loop (sleep, back to the top).
ConsumerFetch(r) ==
    /\ cons[r].pc = "fetch"
    /\ daq_instance # 0
    /\ LET d == daq[daq_instance]
           res == GetData(d.data_queue)
       IN  IF res[1] = <<>>
           THEN /\ cons' = [cons EXCEPT ![r].pc = "top"]
                /\ UNCHANGED daq
           ELSE /\ cons' = [cons EXCEPT ![r].pc = "mirror", ![r].data = res[1],
                                        ![r].lens = Append(@, Len(res[1]))]
                /\ daq' = [daq EXCEPT ![daq_instance].data_queue = res[2],
                                      ![daq_instance].got = Append(@, res[1][1]),
                                      ![daq_instance].disturbed = TRUE]
    /\ UNCHANGED <<mainVars, writers, devVars, io_faults_left, ctlVars>>

\* ------------------------------------------------------- request handlers
\* A handler thread with no request in progress.  run: the run a start
\* request was given; self: the driver a start_reading/stop_reading call is
\* running on; save_unit: the SaveUnit value read from Master.ini; data: the
\* copy of the preview buffer a /data request has taken.
IdleHandler ==
    [pc |-> "idle", run |-> 0, self |-> 0, save_unit |-> 0, data |-> <<>>]

\* A handler thread that no client ever reaches
OffHandler == [IdleHandler EXCEPT !.pc = "off"]

\* The control surface before any response.  kind: "start", "stop" or
\* "status"; code: "ok", "failed" or "rejected" (success False returned before
\* anything was done); is_collecting: what a status response showed;
\* poll_dead: whether the driver's poll loop had stopped itself by then.
NoResponse ==
    [kind |-> "none", code |-> "none", is_collecting |-> FALSE,
     poll_dead |-> FALSE]

\* The response of a start or stop request
Answer(kind, code) ==
    [kind |-> kind, code |-> code, is_collecting |-> FALSE, poll_dead |-> FALSE]

\* The handler thread returns.
Return(h) == [handler EXCEPT ![h] = IdleHandler]

\* start_collection as it would be if the reset of lines 171-173 came before
\* the label check
StartCheck_ResetFirst(h) ==
    /\ handler[h].pc = "idle"
    /\ \E label \in Labels :
          IF is_collecting
          THEN /\ response' = Answer("start", "rejected")
               /\ UNCHANGED <<handler, free_runs, realtime_data, data_counter,
                              current_data_size>>
          ELSE /\ realtime_data' = <<>>
               /\ data_counter' = 0
               /\ current_data_size' = 0
               /\ IF label = ""
                  THEN /\ response' = Answer("start", "rejected")
                       /\ UNCHANGED <<handler, free_runs>>
                  ELSE /\ free_runs # {}
                       /\ LET run == CHOOSE r \in free_runs :
                                         \A q \in free_runs : r <= q
                          IN  /\ handler' = [handler EXCEPT ![h].pc = "s_reset",
                                                            ![h].run = run]
                              /\ free_runs' = free_runs \ {run}
                       /\ UNCHANGED response
    /\ UNCHANGED <<is_collecting, daq_instance, csv_writer_instance, target_size,
                   request_recent, writers, cons, devVars, io_faults_left, daq>>

\* start_collection lines 160-168: a start request with the given label.
\* Rejected while collecting or without a label; otherwise it goes on.
StartCheck(h) ==
    /\ handler[h].pc = "idle"
    /\ \E label \in Labels :
          IF is_collecting \/ label = ""
          THEN /\ response' = Answer("start", "rejected")
               /\ UNCHANGED <<handler, free_runs>>
          ELSE /\ free_runs # {}
               /\ LET run == CHOOSE r \in free_runs : \A q \in free_runs : r <= q
                  IN  /\ handler' = [handler EXCEPT ![h].pc = "s_reset",
                                                    ![h].run = run]
                      /\ free_runs' = free_runs \ {run}
               /\ UNCHANGED response
    /\ UNCHANGED <<mainVars, writers, cons, devVars, io_faults_left, daq>>

\* lines 170-188: reset the preview and the counters, then read Master.ini
\* (no SaveUnit section: the request fails).
StartReset(h) ==
    /\ handler[h].pc = "s_reset"
    /\ realtime_data' = <<>>
    /\ data_counter' = 0
    /\ current_data_size' = 0
    /\ request_recent' = FALSE
    /\ \E configOk \in BOOLEAN, save_unit \in 1..MaxSaveUnit :
          IF configOk
          THEN /\ handler' = [handler EXCEPT ![h].pc = "s_daq",
                                             ![h].save_unit = save_unit]
               /\ UNCHANGED response
          ELSE /\ handler' = Return(h)
               /\ response' = Answer("start", "failed")
    /\ cons' = [r \in Runs |-> [cons[r] EXCEPT !.reset_at = Len(cons[r].lens)]]
    /\ UNCHANGED <<is_collecting, daq_instance, csv_writer_instance, target_size,
                   writers, devVars, io_faults_left, daq, free_runs>>

\* lines 191-198: daq_instance = ProWaveDAQ(); init_devices() (a failed
\* _connect leaves client None and returns); target_size.
StartDaq(h) ==
    /\ handler[h].pc = "s_daq"
    /\ \E connectOk \in PortOutcomes :
          /\ daq' = [daq EXCEPT ![handler[h].run] =
                        [NoDaq EXCEPT !.created = TRUE,
                                      !.sample_rate = ConfigSampleRate,
                                      !.client = IF connectOk THEN "open"
                                                 ELSE "none"]]
          /\ dev_faults_left' = DevFaulted(connectOk)
    /\ daq_instance' = handler[h].run
    /\ target_size' = handler[h].save_unit * (ConfigSampleRate * CHANNEL_COUNT)
    /\ handler' = [handler EXCEPT ![h].pc = "s_writer"]
    /\ UNCHANGED <<is_collecting, csv_writer_instance, realtime_data,
                   data_counter, current_data_size, request_recent, writers,
                   cons, next_word, device_words, io_faults_left, free_runs,
                   response>>

\* lines 201-207: csv_writer_instance = CSVWriter(channels, output_path, label)
StartWriter(h) ==
    /\ handler[h].pc = "s_writer"
    /\ \E openOk \in IoOutcomes :
          /\ writers' = [writers EXCEPT ![handler[h].run] =
                            NewWriter(CHANNEL_COUNT, DEFAULT_SAMPLE_RATE,
                                      StartInstant, openOk)]
          /\ io_faults_left' = Faulted(openOk)
    /\ csv_writer_instance' = handler[h].run
    /\ handler' = [handler EXCEPT ![h].pc = "s_flag"]
    /\ UNCHANGED <<is_collecting, daq_instance, realtime_data, data_counter,
                   target_size, current_data_size, request_recent, cons,
                   devVars, daq, free_runs, response>>

\* lines 210-213: is_collecting = True and the collection_loop thread starts.
StartFlag(h) ==
    /\ handler[h].pc = "s_flag"
    /\ is_collecting' = TRUE
    /\ cons' = [cons EXCEPT ![handler[h].run] = [NoConsumer EXCEPT !.pc = "top"]]
    /\ handler' = [handler EXCEPT ![h].pc = "sr_check"]
    /\ UNCHANGED <<daq_instance, csv_writer_instance, realtime_data,
                   data_counter, target_size, current_data_size, request_recent,
                   writers, devVars, io_faults_left, daq, free_runs, response>>

\* line 215 and start_reading lines 175-181: return when already reading or
\* when _ensure_connected() fails; start_collection then answers success
\* (lines 217-220).
StartReadingCheck(h) ==
    /\ handler[h].pc = "sr_check"
    /\ daq_instance # 0
    /\ \E linkUp \in PortOutcomes, connectOk \in PortOutcomes :
          LET d == daq[daq_instance]
              connects == d.client = "none" \/ ~linkUp
          IN  /\ (d.reading \/ d.client = "none" => linkUp)
              /\ (d.reading \/ ~connects => connectOk)
              /\ dev_faults_left' = DevFaulted(linkUp /\ connectOk)
              /\ IF d.reading \/ (connects /\ ~connectOk)
                 THEN /\ handler' = Return(h)
                      /\ response' = Answer("start", "ok")
                      /\ daq' = [daq EXCEPT ![daq_instance].client =
                                    IF d.reading THEN @ ELSE "none"]
                 ELSE /\ handler' = [handler EXCEPT ![h].pc = "sr_set",
                                                    ![h].self = daq_instance]
                      /\ daq' = [daq EXCEPT ![daq_instance].client = "open"]
                      /\ UNCHANGED response
    /\ UNCHANGED <<mainVars, writers, cons, next_word, device_words,
                   io_faults_left, free_runs>>

\* start_reading lines 184-189: counter = 0, reading = True
StartReadingSet(h) ==
    /\ handler[h].pc = "sr_set"
    /\ daq' = [daq EXCEPT ![handler[h].self].counter = 0,
                          ![handler[h].self].reading = TRUE]
    /\ handler' = [handler EXCEPT ![h].pc = "sr_spawn"]
    /\ UNCHANGED <<mainVars, writers, cons, devVars, io_faults_left, free_runs,
                   response>>

\* start_reading lines 190-195: the _read_loop thread starts; then
\* start_collection answers success (lines 217-220).  (One _read_loop thread
\* per driver object is modelled.)
StartReadingSpawn(h) ==
    /\ handler[h].pc = "sr_spawn"
    /\ daq[handler[h].self].thread = "none"
    /\ daq' = [daq EXCEPT ![handler[h].self].thread = "alive",
                          ![handler[h].self].pc = "top",
                          ![handler[h].self].consecutive_errors = 0]
    /\ handler' = Return(h)
    /\ response' = Answer("start", "ok")
    /\ UNCHANGED <<mainVars, writers, cons, devVars, io_faults_left, free_runs>>

\* stop_collection lines 232-233: rejected when no collection is running.
StopCheck(h) ==
    /\ handler[h].pc = "idle"
    /\ IF ~is_collecting
       THEN /\ response' = Answer("stop", "rejected")
            /\ UNCHANGED handler
       ELSE /\ handler' = [handler EXCEPT ![h].pc = "t_flag"]
            /\ UNCHANGED response
    /\ UNCHANGED <<mainVars, writers, cons, devVars, io_faults_left, daq,
                   free_runs>>

\* line 236: is_collecting = False
StopFlag(h) ==
    /\ handler[h].pc = "t_flag"
    /\ is_collecting' = FALSE
    /\ handler' = [handler EXCEPT ![h].pc = "st_check"]
    /\ UNCHANGED <<daq_instance, csv_writer_instance, realtime_data,
                   data_counter, target_size, current_data_size, request_recent,
                   writers, cons, devVars, io_faults_left, daq, free_runs,
                   response>>

\* lines 239-240 and stop_reading lines 199-201: when reading, clear the flag
\* and, if reading_thread is alive, go on to join it.
StopReadingCheck(h) ==
    /\ handler[h].pc = "st_check"
    /\ IF daq_instance = 0
       THEN /\ handler' = [handler EXCEPT ![h].pc = "t_close"]
            /\ UNCHANGED daq
       ELSE LET d == daq[daq_instance]
            IN  /\ handler' = [handler EXCEPT
                       ![h].self = daq_instance,
                       ![h].pc = IF d.reading /\ d.thread = "alive"
                                 THEN "st_join" ELSE "st_clean"]
                /\ daq' = [daq EXCEPT ![daq_instance].reading = FALSE]
    /\ UNCHANGED <<mainVars, writers, cons, devVars, io_faults_left, free_runs,
                   response>>

\* line 202: reading_thread.join() returns once the thread has ended.
StopReadingJoin(h) ==
    /\ handler[h].pc = "st_join"
    /\ daq[handler[h].self].thread # "alive"
    /\ handler' = [handler EXCEPT ![h].pc = "st_clean"]
    /\ UNCHANGED <<mainVars, writers, cons, devVars, io_faults_left, daq,
                   free_runs, response>>

\* lines 204-217: counter = 0 and the queue is emptied.
StopReadingClean(h) ==
    /\ handler[h].pc = "st_clean"
    /\ daq' = [daq EXCEPT ![handler[h].self].counter = 0,
                          ![handler[h].self].data_queue = <<>>,
                          ![handler[h].self].disturbed =
                              @ \/ daq[handler[h].self].data_queue # <<>>]
    /\ handler' = [handler EXCEPT ![h].pc = "st_disc"]
    /\ UNCHANGED <<mainVars, writers, cons, devVars, io_faults_left, free_runs,
                   response>>

\* line 220: _disconnect()
StopReadingDisconnect(h) ==
    /\ handler[h].pc = "st_disc"
    /\ daq' = [daq EXCEPT ![handler[h].self].client = "none",
                          ![handler[h].self].closed_by_stop = TRUE]
    /\ handler' = [handler EXCEPT ![h].pc = "t_close"]
    /\ UNCHANGED <<mainVars, writers, cons, devVars, io_faults_left, free_runs,
                   response>>

\* lines 243-246: csv_writer_instance.close(), then the success response.
\* (A close() that finds current_file None performs no I/O, so none can fail.)
StopClose(h) ==
    /\ handler[h].pc = "t_close"
    /\ IF csv_writer_instance = 0
       THEN UNCHANGED <<writers, io_faults_left>>
       ELSE \E closeOk \in IoOutcomes :
               /\ (writers[csv_writer_instance].current_file = 0 => closeOk)
               /\ writers' = [writers EXCEPT ![csv_writer_instance] =
                                 [CloseWriter(@, closeOk)
                                      EXCEPT !.closes = @ + 1]]
               /\ io_faults_left' = Faulted(closeOk)
    /\ handler' = Return(h)
    /\ response' = Answer("stop", "ok")
    /\ UNCHANGED <<mainVars, cons, devVars, daq, free_runs>>

\* get_status (lines 100-108): the response shows is_collecting.
GetStatus(h) ==
    /\ handler[h].pc = "idle"
    /\ response' = [kind |-> "status", code |-> "ok",
                    is_collecting |-> is_collecting,
                    poll_dead |-> /\ daq_instance # 0
                                  /\ daq[daq_instance].fatal
                                  /\ daq[daq_instance].pc = "done"]
    /\ UNCHANGED <<mainVars, writers, cons, devVars, io_faults_left, daq,
                   handler, free_runs>>

\* get_data lines 87-89: a /data request records the time of the request.
DataTouch(h) ==
    /\ handler[h].pc = "idle"
    /\ request_recent' = TRUE
    /\ handler' = [handler EXCEPT ![h].pc = "d_lock"]
    /\ UNCHANGED <<is_collecting, daq_instance, csv_writer_instance,
                   realtime_data, data_counter, target_size, current_data_size,
                   writers, cons, devVars, io_faults_left, daq, free_runs,
                   response>>

\* get_realtime_data line 66: `with data_lock` is entered.
DataLock(h) ==
    /\ handler[h].pc = "d_lock"
    /\ DataLockFree
    /\ handler' = [handler EXCEPT ![h].pc = "d_copy"]
    /\ UNCHANGED <<mainVars, writers, cons, devVars, io_faults_left, daq,
                   free_runs, response>>

\* get_realtime_data line 67: realtime_data.copy(), and the lock is released.
DataCopy(h) ==
    /\ handler[h].pc = "d_copy"
    /\ handler' = [handler EXCEPT ![h].pc = "d_reply",
                                  ![h].data = realtime_data]
    /\ UNCHANGED <<mainVars, writers, cons, devVars, io_faults_left, daq,
                   free_runs, response>>

\* get_data lines 93-97: the response with the copy and the counter.
DataReply(h) ==
    /\ handler[h].pc = "d_reply"
    /\ handler' = Return(h)
    /\ response' = Answer("data", "ok")
    /\ UNCHANGED <<mainVars, writers, cons, devVars, io_faults_left, daq,
                   free_runs>>

\* DATA_REQUEST_TIMEOUT passes without a /data request (line 51).
RequestExpires ==
    /\ request_recent
    /\ request_recent' = FALSE
    /\ UNCHANGED <<is_collecting, daq_instance, csv_writer_instance,
                   realtime_data, data_counter, target_size, current_data_size,
                   writers, cons, devVars, io_faults_left, daq, ctlVars>>

\* The environments the service is run in: the clients that send requests
\* concurrently, the words the device delivers, the device and file faults.
Regimes ==
    { [clients |-> NumHandlers, runs |-> MaxRuns, words |-> RaceWords,
       dev_faults |-> 0, io_faults |-> 0],
      [clients |-> 1, runs |-> 1, words |-> FaultWords,
       dev_faults |-> MaxDevFaults, io_faults |-> 0],
      [clients |-> 1, runs |-> MaxRuns, words |-> QueueWords,
       dev_faults |-> 0, io_faults |-> MaxIoFaults] }

\* The service after import: nothing has been started.
InitIn(env) ==
    /\ is_collecting = FALSE
    /\ daq_instance = 0
    /\ csv_writer_instance = 0
    /\ realtime_data = <<>>
    /\ data_counter = 0
    /\ target_size = 0
    /\ current_data_size = 0
    /\ request_recent = FALSE
    /\ writers = [r \in Runs |-> NoWriter]
    /\ cons = [r \in Runs |-> NoConsumer]
    /\ next_word = 1
    /\ device_words = env.words
    /\ dev_faults_left = env.dev_faults
    /\ io_faults_left = env.io_faults
    /\ daq = [r \in Runs |-> NoDaq]
    /\ handler = [h \in Handlers |->
                     IF h <= env.clients THEN IdleHandler ELSE OffHandler]
    /\ free_runs = 1..env.runs
    /\ response = NoResponse

Init == \E env \in Regimes : InitIn(env)

Next ==
    \/ \E h \in Handlers : StartCheck(h)
    \/ \E h \in Handlers : StartReset(h)
    \/ \E h \in Handlers : StartDaq(h)
    \/ \E h \in Handlers : StartWriter(h)
    \/ \E h \in Handlers : StartFlag(h)
    \/ \E h \in Handlers : StartReadingCheck(h)
    \/ \E h \in Handlers : StartReadingSet(h)
    \/ \E h \in Handlers : StartReadingSpawn(h)
    \/ \E h \in Handlers : StopCheck(h)
    \/ \E h \in Handlers : StopFlag(h)
    \/ \E h \in Handlers : StopReadingCheck(h)
    \/ \E h \in Handlers : StopReadingJoin(h)
    \/ \E h \in Handlers : StopReadingClean(h)
    \/ \E h \in Handlers : StopReadingDisconnect(h)
    \/ \E h \in Handlers : StopClose(h)
    \/ \E h \in Handlers : GetStatus(h)
    \/ \E r \in Runs : PollTop(r)
    \/ \E r \in Runs : PollEnsure(r)
    \/ \E r \in Runs : PollFifoLength(r)
    \/ \E r \in Runs : PollReadBlock(r)
    \/ \E r \in Runs : PollEvict(r)
    \/ \E r \in Runs : PollPutAgain(r)
    \/ \E r \in Runs : PollExit(r)
    \/ \E r \in Runs : ConsumerTop(r)
    \/ \E r \in Runs : ConsumerFetch(r)
    \/ \E r \in Runs : ConsumerMirror(r)
    \/ \E r \in Runs : ConsumerProc(r)
    \/ \E r \in Runs : ConsumerRot(r)

Spec == Init /\ [][Next]_vars

\* ------------------------------------------------- the segmentation engine
\* SpecSeg: collection_loop's per-batch steps on one writer, fed batches of
\* every length 1..SegMaxBatch.
SegTake(r) ==
    /\ cons[r].pc = "fetch"
    /\ \E n \in 1..SegMaxBatch :
          /\ n <= device_words
          /\ cons' = [cons EXCEPT ![r].pc = "mirror",
                                  ![r].data = Span(next_word, n),
                                  ![r].lens = Append(@, n)]
          /\ next_word' = next_word + n
          /\ device_words' = device_words - n
    /\ UNCHANGED <<is_collecting, daq_instance, csv_writer_instance,
                   realtime_data, data_counter, target_size, current_data_size,
                   request_recent, writers, dev_faults_left, io_faults_left, daq,
                   ctlVars>>

SegInit ==
    /\ is_collecting = TRUE
    /\ daq_instance = 1
    /\ csv_writer_instance = 1
    /\ realtime_data = <<>>
    /\ data_counter = 0
    /\ target_size \in 1..SegMaxTarget
    /\ current_data_size = 0
    /\ request_recent = TRUE
    /\ writers = [r \in Runs |->
                    IF r = 1
                    THEN NewWriter(CHANNEL_COUNT, DEFAULT_SAMPLE_RATE, StartInstant, TRUE)
                    ELSE NoWriter]
    /\ cons = [r \in Runs |-> IF r = 1 THEN [NoConsumer EXCEPT !.pc = "fetch"]
                              ELSE NoConsumer]
    /\ next_word = 1
    /\ device_words = SegWords
    /\ dev_faults_left = 0
    /\ io_faults_left = MaxIoFaults
    /\ daq = [r \in Runs |-> NoDaq]
    /\ handler = [h \in Handlers |-> IdleHandler]
    /\ free_runs = {}
    /\ response = NoResponse

SegNext ==
    \/ SegTake(1)
    \/ ConsumerMirror(1)
    \/ ConsumerProc(1)
    \/ ConsumerRot(1)

SpecSeg == SegInit /\ [][SegNext]_vars

\* ------------------------------------------------- a stop and a restart
\* One step of the collection_loop thread of run r
ConsumerStep(r) ==
    \/ ConsumerTop(r)
    \/ ConsumerFetch(r)
    \/ ConsumerMirror(r)
    \/ ConsumerProc(r)
    \/ ConsumerRot(r)

\* One step of a request handler that has begun to serve a start or a stop
HandlerStep(h) ==
    \/ StartReset(h)
    \/ StartDaq(h)
    \/ StartWriter(h)
    \/ StartFlag(h)
    \/ StartReadingCheck(h)
    \/ StartReadingSet(h)
    \/ StartReadingSpawn(h)
    \/ StopFlag(h)
    \/ StopReadingCheck(h)
    \/ StopReadingJoin(h)
    \/ StopReadingClean(h)
    \/ StopReadingDisconnect(h)
    \/ StopClose(h)

\* SpecRestart: one client sends start, stop and status requests one after
\* the other, for up to RestartRuns runs, to a device that delivers one
\* sample; nothing fails.  (With fewer words than fill the queue the
\* eviction steps of _read_loop are never enabled.)
RestartInit ==
    InitIn([clients |-> 1, runs |-> RestartRuns, words |-> RaceWords,
            dev_faults |-> 0, io_faults |-> 0])

RestartNext ==
    \/ \E h \in Handlers : StartCheck(h)
    \/ \E h \in Handlers : StopCheck(h)
    \/ \E h \in Handlers : GetStatus(h)
    \/ \E h \in Handlers : HandlerStep(h)
    \/ \E r \in Runs : PollTop(r)
    \/ \E r \in Runs : PollEnsure(r)
    \/ \E r \in Runs : PollFifoLength(r)
    \/ \E r \in Runs : PollReadBlock(r)
    \/ \E r \in Runs : PollExit(r)
    \/ \E r \in Runs : ConsumerStep(r)

\* Every thread that can run keeps being scheduled; clients send requests
\* when they like.
SpecRestart ==
    /\ RestartInit
    /\ [][RestartNext]_vars
    /\ \A h \in Handlers : WF_vars(HandlerStep(h))
    /\ \A r \in Runs : WF_vars(PollTop(r) \/ PollEnsure(r) \/ PollFifoLength(r)
                                    \/ PollReadBlock(r) \/ PollExit(r))
    /\ \A r \in Runs : WF_vars(ConsumerStep(r))

\* ------------------------------------- the += of current_data_size, split
\* SpecRmw: a run in progress (started with SaveUnit = RmwSaveUnit, nothing
\* read yet), one client that sends stop, start and status requests, and
\* collection_loop threads whose `current_data_size += len(data)` is a load
\* followed by a store.  Nothing fails.
RmwInit ==
    /\ is_collecting = TRUE
    /\ daq_instance = 1
    /\ csv_writer_instance = 1
    /\ realtime_data = <<>>
    /\ data_counter = 0
    /\ target_size = RmwSaveUnit * (ConfigSampleRate * CHANNEL_COUNT)
    /\ current_data_size = 0
    /\ request_recent = FALSE
    /\ writers = [r \in Runs |->
                    IF r = 1
                    THEN NewWriter(CHANNEL_COUNT, DEFAULT_SAMPLE_RATE,
                                   StartInstant, TRUE)
                    ELSE NoWriter]
    /\ cons = [r \in Runs |-> IF r = 1 THEN [NoConsumer EXCEPT !.pc = "top"]
                              ELSE NoConsumer]
    /\ next_word = 1
    /\ device_words = RmwWords
    /\ dev_faults_left = 0
    /\ io_faults_left = 0
    /\ daq = [r \in Runs |->
                 IF r = 1
                 THEN [NoDaq EXCEPT !.created = TRUE, !.client = "open",
                                    !.sample_rate = ConfigSampleRate,
                                    !.reading = TRUE, !.thread = "alive",
                                    !.pc = "top"]
                 ELSE NoDaq]
    /\ handler = [h \in Handlers |-> IF h = 1 THEN IdleHandler ELSE OffHandler]
    /\ free_runs = Runs \ {1}
    /\ response = Answer("start", "ok")

RmwNext ==
    \/ \E h \in Handlers : StartCheck(h)
    \/ \E h \in Handlers : StopCheck(h)
    \/ \E h \in Handlers : GetStatus(h)
    \/ \E h \in Handlers : HandlerStep(h)
    \/ \E r \in Runs : PollTop(r)
    \/ \E r \in Runs : PollEnsure(r)
    \/ \E r \in Runs : PollFifoLength(r)
    \/ \E r \in Runs : PollReadBlock(r)
    \/ \E r \in Runs : PollExit(r)
    \/ \E r \in Runs : ConsumerTop(r)
    \/ \E r \in Runs : ConsumerFetch(r)
    \/ \E r \in Runs : ConsumerMirror(r)
    \/ \E r \in Runs : ConsumerLoad(r)
    \/ \E r \in Runs : ConsumerStore(r)
    \/ \E r \in Runs : ConsumerRot(r)

SpecRmw == RmwInit /\ [][RmwNext]_vars

\* ------------------------------------------- a device that stops answering
\* SpecDead: the poll thread of a started driver, on a device that can stop
\* answering at any moment and never answers again.
DeviceDies ==
    /\ dev_faults_left >= 0
    /\ dev_faults_left' = -1
    /\ UNCHANGED <<mainVars, writers, cons, next_word, device_words,
                   io_faults_left, daq, ctlVars>>

\* One step of the _read_loop thread of run r
PollStep(r) ==
    \/ PollTop(r)
    \/ PollEnsure(r)
    \/ PollFifoLength(r)
    \/ PollReadBlock(r)
    \/ PollEvict(r)
    \/ PollPutAgain(r)
    \/ PollExit(r)

\* The state after start_reading has spawned _read_loop: connection open,
\* reading set, the thread at the top of its loop.
DeadInit ==
    /\ is_collecting = TRUE
    /\ daq_instance = 1
    /\ csv_writer_instance = 0
    /\ realtime_data = <<>>
    /\ data_counter = 0
    /\ target_size = 0
    /\ current_data_size = 0
    /\ request_recent = FALSE
    /\ writers = [r \in Runs |-> NoWriter]
    /\ cons = [r \in Runs |-> NoConsumer]
    /\ next_word = 1
    /\ device_words = QueueWords
    /\ dev_faults_left = 0
    /\ io_faults_left = 0
    /\ daq = [r \in Runs |->
                 IF r = 1
                 THEN [NoDaq EXCEPT !.created = TRUE, !.client = "open",
                                    !.reading = TRUE, !.thread = "alive",
                                    !.pc = "top"]
                 ELSE NoDaq]
    /\ handler = [h \in Handlers |-> IdleHandler]
    /\ free_runs = {}
    /\ response = NoResponse

DeadNext ==
    \/ PollTop(1)
    \/ PollEnsure(1)
    \/ PollFifoLength(1)
    \/ PollReadBlock(1)
    \/ PollEvict(1)
    \/ PollPutAgain(1)
    \/ PollExit(1)
    \/ DeviceDies

\* The operating system keeps scheduling the poll thread.
SpecDead == DeadInit /\ [][DeadNext]_vars /\ WF_vars(PollStep(1))

\* ------------------------------------------------------ the conversion
\* SpecConv: _read_loop holds a block of raw register values and converts it.
\* The blocks are the runs of up to MaxRawLen consecutive register values
\* (wrapping at 65535) starting at every value a register can carry.
RawRun(w, n) == [i \in 1..n |-> (w + i - 1) % 65536]

\* line 559: samples = self._convert_raw_to_float_samples(raw_block)
ConvConvert(r) ==
    /\ daq[r].pc = "convert"
    /\ daq' = [daq EXCEPT
                 ![r].samples = ConvertRawToFloatSamples(daq[r].raw_block),
                 ![r].pc = "converted"]
    /\ UNCHANGED <<mainVars, writers, cons, devVars, io_faults_left, ctlVars>>

ConvInit ==
    /\ is_collecting = TRUE
    /\ daq_instance = 1
    /\ csv_writer_instance = 0
    /\ realtime_data = <<>>
    /\ data_counter = 0
    /\ target_size = 0
    /\ current_data_size = 0
    /\ request_recent = FALSE
    /\ writers = [r \in Runs |-> NoWriter]
    /\ cons = [r \in Runs |-> NoConsumer]
    /\ next_word = 1
    /\ device_words = 0
    /\ dev_faults_left = 0
    /\ io_faults_left = 0
    /\ \E w \in RawWords : \E n \in 0..MaxRawLen :
          daq = [r \in Runs |->
                    IF r = 1
                    THEN [NoDaq EXCEPT !.created = TRUE, !.client = "open",
                                       !.reading = TRUE, !.thread = "alive",
                                       !.pc = "convert",
                                       !.raw_block = RawRun(w, n)]
                    ELSE NoDaq]
    /\ handler = [h \in Handlers |-> IdleHandler]
    /\ free_runs = {}
    /\ response = NoResponse

ConvNext == ConvConvert(1)

SpecConv == ConvInit /\ [][ConvNext]_vars

\* ------------------------------------------------- the segment time unit
\* SpecUnit: collection_loop's per-batch steps with target_size computed as
\* start_collection does from a SaveUnit value of 0..MaxSaveUnit (getint
\* accepts any integer); no file operation fails.  The writer is followed
\* for MaxUnitFiles files.
UnitInit ==
    /\ is_collecting = TRUE
    /\ daq_instance = 1
    /\ csv_writer_instance = 1
    /\ realtime_data = <<>>
    /\ data_counter = 0
    /\ \E save_unit \in 0..MaxSaveUnit :
          target_size = save_unit * (ConfigSampleRate * CHANNEL_COUNT)
    /\ current_data_size = 0
    /\ request_recent = FALSE
    /\ writers = [r \in Runs |->
                    IF r = 1
                    THEN NewWriter(CHANNEL_COUNT, DEFAULT_SAMPLE_RATE, StartInstant, TRUE)
                    ELSE NoWriter]
    /\ cons = [r \in Runs |-> IF r = 1 THEN [NoConsumer EXCEPT !.pc = "fetch"]
                              ELSE NoConsumer]
    /\ next_word = 1
    /\ device_words = SegWords
    /\ dev_faults_left = 0
    /\ io_faults_left = 0
    /\ daq = [r \in Runs |-> NoDaq]
    /\ handler = [h \in Handlers |-> OffHandler]
    /\ free_runs = {}
    /\ response = NoResponse

\* One test of the rotation loop's condition, while the writer is followed
UnitRot(r) ==
    /\ Len(writers[csv_writer_instance].files) < MaxUnitFiles
    /\ ConsumerRot(r)

UnitNext ==
    \/ SegTake(1)
    \/ ConsumerMirror(1)
    \/ ConsumerProc(1)
    \/ UnitRot(1)

SpecUnit == UnitInit /\ [][UnitNext]_vars

\* ------------------------------------------------- the live preview
\* get_data returns batches of whole samples: n values, a multiple of the
\* channel count.
PreviewTake(r) ==
    /\ cons[r].pc = "fetch"
    /\ \E k \in 1..PreviewMaxSamples :
          LET n == k * CHANNEL_COUNT
          IN  /\ n <= device_words
              /\ cons' = [cons EXCEPT ![r].pc = "mirror",
                                      ![r].data = Span(next_word, n),
                                      ![r].lens = Append(@, n)]
              /\ next_word' = next_word + n
              /\ device_words' = device_words - n
    /\ UNCHANGED <<is_collecting, daq_instance, csv_writer_instance,
                   realtime_data, data_counter, target_size, current_data_size,
                   request_recent, writers, dev_faults_left, io_faults_left, daq,
                   ctlVars>>

\* SpecPreview: collection_loop's per-batch steps on batches of whole
\* samples while one front end polls /data and /status, with pauses longer
\* than DATA_REQUEST_TIMEOUT; no file operation fails.
PreviewInit ==
    /\ is_collecting = TRUE
    /\ daq_instance = 1
    /\ csv_writer_instance = 1
    /\ realtime_data = <<>>
    /\ data_counter = 0
    /\ target_size = SegMaxTarget
    /\ current_data_size = 0
    /\ request_recent = FALSE
    /\ writers = [r \in Runs |->
                    IF r = 1
                    THEN NewWriter(CHANNEL_COUNT, DEFAULT_SAMPLE_RATE, StartInstant, TRUE)
                    ELSE NoWriter]
    /\ cons = [r \in Runs |-> IF r = 1 THEN [NoConsumer EXCEPT !.pc = "fetch"]
                              ELSE NoConsumer]
    /\ next_word = 1
    /\ device_words = PreviewWords
    /\ dev_faults_left = 0
    /\ io_faults_left = 0
    /\ daq = [r \in Runs |-> NoDaq]
    /\ handler = [h \in Handlers |-> IF h = 1 THEN IdleHandler ELSE OffHandler]
    /\ free_runs = {}
    /\ response = NoResponse

PreviewNext ==
    \/ PreviewTake(1)
    \/ ConsumerMirror(1)
    \/ ConsumerProc(1)
    \/ ConsumerRot(1)
    \/ DataTouch(1)
    \/ DataLock(1)
    \/ DataCopy(1)
    \/ DataReply(1)
    \/ GetStatus(1)
    \/ RequestExpires

SpecPreview == PreviewInit /\ [][PreviewNext]_vars

\* ------------------------------------------------------------ claims C1-C6
\* The elements passed to add_data_block while segment seg was current.
RECURSIVE HandedTo(_, _)
HandedTo(log, seg) ==
    IF log = <<>> THEN <<>>
    ELSE (IF Head(log).seg = seg THEN Head(log).data ELSE <<>>)
         \o HandedTo(Tail(log), seg)

\* All elements passed to add_data_block, in call order.
RECURSIVE HandedAll(_)
HandedAll(log) ==
    IF log = <<>> THEN <<>> ELSE Head(log).data \o HandedAll(Tail(log))

\* The consumer of run r is between two batches.
BatchDone(r) == cons[r].pc = "fetch" /\ cons[r].lens # <<>>

\* C1: once a batch has been processed, the elements handed to the writer,
\* concatenated over all segments in order, are exactly the input stream fed
\* so far, and every segment that has been rotated away received exactly
\* target_size elements.
C1_StreamPartitioned ==
    BatchDone(1) =>
        LET w == writers[1]
        IN  /\ HandedAll(w.handed) = Span(1, next_word - 1)
            /\ \A seg \in 1..(w.file_counter - 1) :
                   Len(HandedTo(w.handed, seg)) = target_size

\* C4: the global sample index counts the rows built since the writer was
\* created, whatever rotations happened, and every stored row whose sample
\* index is k carries the timestamp start_instant + k / sample_rate (to the
\* microsecond).
C4_SampleClockContinuous ==
    \A r \in Runs :
        LET w == writers[r]
        IN  /\ w.global_sample_count = w.rows_built
            /\ \A f \in 1..Len(w.files) : \A i \in 1..Len(w.files[f].rows) :
                   LET row == w.files[f].rows[i]
                       err == (row.ts - w.global_start_time) * w.sample_rate
                                  - row.seq_no * 1000000
                   IN  /\ 2 * err <= w.sample_rate
                       /\ 2 * err >= -w.sample_rate

\* C4 witness: a row with a positive sample index stored in a segment opened
\* by a rotation.
C4_Witness ==
    \E f \in 2..Len(writers[1].files) :
        \E i \in 1..Len(writers[1].files[f].rows) :
            writers[1].files[f].rows[i].seq_no > 0

\* Every batch taken so far by run r has a whole number of samples.
BatchesAligned(r) ==
    \A i \in 1..Len(cons[r].lens) : cons[r].lens[i] % CHANNEL_COUNT = 0

\* C5: when target_size and every batch length are multiples of the channel
\* count, every slice passed to add_data_block is a whole number of samples
\* and no stored row has been completed with a padding value.
C5_SlicesOnSampleBoundary ==
    (target_size % CHANNEL_COUNT = 0 /\ BatchesAligned(1)) =>
        LET w == writers[1]
        IN  /\ \A i \in 1..Len(w.handed) :
                   Len(w.handed[i].data) % CHANNEL_COUNT = 0
            /\ \A f \in 1..Len(w.files) : \A i \in 1..Len(w.files[f].rows) :
                   \A j \in 1..w.channels : w.files[f].rows[i].vals[j] # Pad

\* C5 witness: aligned batches, one of which was split by a rotation inside
\* the batch (a non-empty part written before and after it).
C5_Witness ==
    /\ target_size % CHANNEL_COUNT = 0
    /\ BatchesAligned(1)
    /\ BatchDone(1)
    /\ LET w == writers[1]
           h == cons[1].before.handed
       IN  /\ Len(w.handed) = h + 2
           /\ w.handed[h + 1].data # <<>>
           /\ w.handed[h + 2].data # <<>>
           /\ w.handed[h + 1].seg < w.handed[h + 2].seg
           /\ w.handed[h + 1].data \o w.handed[h + 2].data = cons[1].data

\* The latest batch of run r was as long as the room left in the segment.
ExactFit(r) ==
    /\ BatchDone(r)
    /\ cons[r].before.seg > 0
    /\ cons[r].before.size + Len(cons[r].data) = target_size

\* C6: a batch whose length equals the room left in the current segment is
\* written whole to that segment, exactly one rotation follows, nothing is
\* written to the new segment, and current_data_size is 0.
C6_ExactFitRotatesOnce ==
    ExactFit(1) =>
        LET w == writers[1]
            b == cons[1].before
        IN  /\ w.file_counter = b.seg + 1
            /\ HandedTo(SubSeq(w.handed, b.handed + 1, Len(w.handed)), b.seg)
                   = cons[1].data
            /\ HandedTo(w.handed, b.seg + 1) = <<>>
            /\ current_data_size = 0

\* C6 witness: an exact fit that completed a segment begun by earlier batches.
C6_Witness == ExactFit(1) /\ cons[1].before.size > 0

\* ----------------------------------------------------------- claims C2, C3
\* Strictly increasing sequence of numbers
Increasing(seq) == \A i \in 1..Len(seq) : \A j \in 1..Len(seq) : i < j => seq[i] < seq[j]

\* The first words of the batches in a queue
Firsts(q) == [i \in 1..Len(q) |-> q[i][1]]

\* C2: the hand-off queue never holds more than its capacity, and get_data
\* returns batches in the order they were enqueued: the batches returned so
\* far, followed by those still queued, are in the order the device
\* delivered them.
C2_QueueBoundedFifo ==
    \A r \in Runs :
        /\ Len(daq[r].data_queue) <= QueueMaxSize
        /\ Increasing(daq[r].got \o Firsts(daq[r].data_queue))

\* C2 witness: get_data has returned two batches, the first batch the device
\* delivered was evicted, and the queue is full again or was.
C2_Witness ==
    \E r \in Runs : Len(daq[r].got) >= 2 /\ daq[r].got[1] > 1

\* C3: when put_nowait found the queue at capacity and no other thread took
\* a batch before the retry completed, the queue afterwards is the queue as
\* it was found, without its oldest batch, followed by the new batch; its
\* size is the capacity.
C3_FullQueueEvictsOldest ==
    \A r \in Runs :
        (daq[r].pc = "top" /\ daq[r].snap # <<>> /\ ~daq[r].disturbed) =>
            /\ Len(daq[r].snap) = QueueMaxSize
            /\ daq[r].data_queue = Tail(daq[r].snap) \o <<daq[r].samples>>
            /\ Len(daq[r].data_queue) = QueueMaxSize

\* C3 witness: the poll loop has just completed a put on a full queue that no
\* other thread touched.
C3_Witness ==
    \E r \in Runs :
        /\ daq[r].pc = "top"
        /\ daq[r].snap # <<>>
        /\ ~daq[r].disturbed
        /\ daq[r].samples # <<>>

\* ------------------------------------------------------ claims C7, C8, C9
\* C7: the poll loop never opens a connection, nor issues a transaction on
\* one, after stop_reading has run _disconnect on that driver.
C7_NoPollUseAfterStopClosed == \A r \in Runs : ~daq[r].used_after_close

\* C8: every step of the poll loop in which a device transaction or a
\* connection attempt fails adds one to consecutive_errors.
C8_EveryFailureCounted ==
    [][\A r \in Runs :
          (~daq[r].io_failed /\ daq'[r].io_failed) =>
              daq'[r].consecutive_errors = daq[r].consecutive_errors + 1]_vars

\* C9: a status response given after the poll loop has stopped itself on
\* accumulated failures does not show the collection as running.
C9_StatusShowsFatalStop ==
    (response.kind = "status" /\ response.poll_dead) => ~response.is_collecting

\* ---------------------------------------------------------------- claim C10
\* The acquisition state: running flag, driver and writer instances (and the
\* objects themselves), counters, preview buffer, segment size state.
acqState ==
    <<is_collecting, daq_instance, csv_writer_instance, data_counter,
      realtime_data, target_size, current_data_size, daq, writers, cons>>

\* C10: a step in which a start request is rejected (a collection is running,
\* or the label is missing) or a stop request is rejected (no collection is
\* running) answers with a failure and leaves the acquisition state as it was.
C10_RejectionChangesNothing ==
    [][\A h \in Handlers :
          ((StartCheck(h) \/ StopCheck(h)) /\ response'.code = "rejected") =>
              UNCHANGED acqState]_vars

\* C10 witness: a start request has been rejected while a collection that
\* has already counted data is running.
C10_Witness ==
    /\ response.kind = "start"
    /\ response.code = "rejected"
    /\ is_collecting
    /\ data_counter > 0

\* ---------------------------------------------------------------- claim C11
\* C11: every batch in a hand-off queue is non-empty and holds a whole number
\* of samples.
C11_QueuedBatchesWholeSamples ==
    \A r \in Runs : \A i \in 1..Len(daq[r].data_queue) :
        /\ daq[r].data_queue[i] # <<>>
        /\ Len(daq[r].data_queue[i]) % CHANNEL_COUNT = 0

\* C11 witness: the device reported a count that is not a multiple of 3, the
\* driver read that many words and queued a batch, and the word after the
\* batch was read and not forwarded.
C11_Witness ==
    \E r \in Runs :
        LET q == daq[r].data_queue
        IN  /\ daq[r].pc = "top"
            /\ daq[r].fifo_len % CHANNEL_COUNT # 0
            /\ q # <<>>
            /\ q[Len(q)][Len(q[Len(q)])] + 2 = next_word

\* ---------------------------------------------------------------- claim C12
\* The rows stored in the first n files of a writer, in write order
RECURSIVE RowsOf(_, _)
RowsOf(files, n) ==
    IF n = 0 THEN <<>> ELSE RowsOf(files, n - 1) \o files[n].rows

\* The timestamps of the rows a writer has stored, in write order
Stamps(w) ==
    LET rows == RowsOf(w.files, Len(w.files))
    IN  [i \in 1..Len(rows) |-> rows[i].ts]

C13_SyncedAndClosedBeforeNext ==
    \A r \in Runs :
        LET w == writers[r]
        IN  \A f \in 1..Len(w.files) :
               /\ (f # w.current_file => ~w.files[f].open)
               /\ (~w.files[f].open => w.files[f].synced)

\* ---------------------------------------------------------------- claim C14
\* C14: for every writer state the service reaches and every outcome of the
\* I/O calls, close() applied to a writer that close() has just been applied
\* to changes nothing: no file is written, synced or closed by it.
C14_CloseIdempotent ==
    \A r \in Runs : \A ok1 \in BOOLEAN, ok2 \in BOOLEAN :
        CloseWriter(CloseWriter(writers[r], ok1), ok2)
            = CloseWriter(writers[r], ok1)

\* C14 witness: close() has been called twice on a writer that had stored
\* rows, and the writer is closed.
C14_Witness ==
    \E r \in Runs :
        /\ writers[r].closes >= 2
        /\ writers[r].current_file = 0
        /\ writers[r].files # <<>>

\* ---------------------------------------------------------------- claim C15
\* init_devices has returned normally to start_collection in handler h, which
\* is about to go on with lines 193-207.
InitDevicesReturned(h) == handler[h].pc = "s_writer"

\* C15: init_devices returns normally only with the serial link open; when
\* the link cannot be opened its caller does not go on.
C15_InitDevicesFailsWithoutLink ==
    \A h \in Handlers :
        InitDevicesReturned(h) => daq[handler[h].run].client = "open"

\* ---------------------------------------------------------------- claim C16
\* C16: an I/O call that raises inside add_data_block or update_filename
\* does not cut the consumer's pass short: the slice is still logged as passed
\* to the writer, a rotation pass still advances to the next segment and
\* subtracts target_size, and the consumer goes on in collection_loop.  Every
\* batch the consumer has finished, before or after a failure, was passed to
\* the writer.
C16_IoFailureContained ==
    /\ [][\A r \in Runs :
             (io_faults_left' < io_faults_left /\ cons[r].pc \in {"proc", "rot"}) =>
                 LET w == writers[csv_writer_instance]
                     w2 == writers'[csv_writer_instance]
                 IN  /\ Len(w2.handed) = Len(w.handed) + 1
                     /\ cons'[r].pc \in {"rot", "fetch"}
                     /\ (cons[r].pc = "rot" /\ current_data_size >= target_size) =>
                            /\ w2.file_counter = w.file_counter + 1
                            /\ current_data_size' = current_data_size - target_size
                            /\ cons'[r].pc = "rot"]_vars
    /\ [](\A r \in Runs :
             (BatchDone(r) /\ csv_writer_instance # 0) =>
                 Len(writers[csv_writer_instance].handed) > cons[r].before.handed)

\* C16 witness: an I/O call has raised (the fault is spent), and the rows of
\* a batch taken afterwards have been stored: the newest row the writer built
\* is the last row of its current file, while an earlier row was lost.
C16_Witness ==
    \E r \in Runs :
        LET w == writers[r]
        IN  /\ BatchDone(r)
            /\ io_faults_left < MaxIoFaults
            /\ w.current_file # 0
            /\ Len(Stamps(w)) < w.rows_built
            /\ LET rows == w.files[w.current_file].rows
               IN  /\ rows # <<>>
                   /\ rows[Len(rows)].seq_no = w.rows_built - 1

\* ---------------------------------------------------------------- claim C17
\* C17: with a live connection, the preview buffer never holds more than the
\* cap, and it is the most recent values mirrored so far: the whole mirrored
\* stream while that is within the cap, its last PreviewCap values afterwards.
C17_PreviewIsRecentSuffix ==
    LET n == Len(realtime_data)
    IN  /\ n <= PreviewCap
        /\ n = Min(PreviewCap, data_counter)
        /\ realtime_data = Span(data_counter - n + 1, n)

\* C17 witness: update_realtime_data has just mirrored a batch that took the
\* buffer over the cap, and the oldest values are gone.
C17_Witness ==
    /\ cons[1].pc = "proc"
    /\ Len(realtime_data) = PreviewCap
    /\ realtime_data[1] > 1
    /\ realtime_data[PreviewCap] = next_word - 1

\* ---------------------------------------------------------------- claim C18
\* C18: every raw register value w the conversion keeps comes out as the
\* 16-bit two's-complement reading of w (w below 32768, w - 65536 from there
\* on, so within -32768..32767) divided by 8192; the raw value 40000 comes out
\* as -25536 / 8192 = -3.1171875 (both sides of that decimal are written
\* over their common factor 78125 to stay within 32-bit arithmetic).
C18_SignedOver8192 ==
    \A r \in Runs :
        daq[r].pc = "converted" =>
            LET raw == daq[r].raw_block
                out == daq[r].samples
            IN  /\ Len(out) = (Len(raw) \div CHANNEL_COUNT) * CHANNEL_COUNT
                /\ \A i \in 1..Len(out) :
                       LET w == raw[i]
                           signed == IF w < 32768 THEN w ELSE w - 65536
                       IN  /\ signed \in -32768..32767
                           /\ (signed - w) % 65536 = 0
                           /\ out[i].den # 0
                           /\ out[i].num * 8192 = signed * out[i].den
                           /\ (w = 40000 =>
                                 /\ out[i].num * 8192 = -25536 * out[i].den
                                 /\ out[i].num * (10000000 \div 78125)
                                      = -(31171875 \div 78125) * out[i].den)

\* C18 witness: a converted block of four words that kept three, among them
\* the raw value 40000, which came out as -25536 / 8192.
C18_Witness ==
    \E r \in Runs :
        /\ daq[r].pc = "converted"
        /\ Len(daq[r].raw_block) = 4
        /\ Len(daq[r].samples) = 3
        /\ \E i \in 1..Len(daq[r].samples) :
              /\ daq[r].raw_block[i] = 40000
              /\ daq[r].samples[i] = [num |-> -25536, den |-> 8192]

\* ---------------------------------------------------------------- claim C19
\* C19: when no I/O call has failed, after every batch collection_loop has
\* finished current_data_size is the number of elements passed to the writer
\* for the segment now open, and it is at least 0 and below target_size.
C19_SizeTracksOpenSegment ==
    (BatchDone(1) /\ io_faults_left = MaxIoFaults) =>
        LET w == writers[1]
        IN  /\ current_data_size = Len(HandedTo(w.handed, w.file_counter))
            /\ 0 <= current_data_size
            /\ current_data_size < target_size

\* ---------------------------------------------------------------- claim C20
\* The channel (0 = X, 1 = Y, 2 = Z) of the word at position p of the
\* device's stream, which starts with an X word at position 1.
ChannelOf(p) == (p - 1) % CHANNEL_COUNT

\* C20: in every queued batch the word at (0-based) index i is a word of
\* channel i mod 3 of the device's stream, whatever FIFO lengths the device
\* has reported.
C20_BatchesKeepChannelPhase ==
    \A r \in Runs : \A k \in 1..Len(daq[r].data_queue) :
        LET batch == daq[r].data_queue[k]
        IN  \A i \in 1..Len(batch) :
               ChannelOf(batch[i]) = (i - 1) % CHANNEL_COUNT

\* ---------------------------------------------------------------- claim C21
\* C21: whenever _read_loop is about to call _read_raw_block, the number of
\* words the call will request from the device is a multiple of the channel
\* count.
C21_RequestsWholeSamples ==
    \A r \in Runs :
        daq[r].pc = "raw" => RequestWords(daq[r].fifo_len) % CHANNEL_COUNT = 0

\* ---------------------------------------------------------------- claim C22
\* C22: once the device has stopped answering, a poll loop that is running
\* eventually leaves its loop and the driver shows itself stopped
\* (reading = False, thread ended).
C22_DeadDeviceStopsPolling ==
    \A r \in Runs :
        (dev_faults_left < 0 /\ daq[r].thread = "alive")
            ~> (daq[r].pc = "done" /\ ~daq[r].reading)

\* ---------------------------------------------------------------- claim C23
\* C23: once a stop request has set is_collecting false, every
\* collection_loop thread running at that moment eventually ends, and once
\* stop_reading has set a driver's reading flag false its _read_loop thread
\* eventually ends, whatever requests come afterwards.
C23_StopEndsBothLoops ==
    \A r \in Runs :
        /\ (~is_collecting /\ cons[r].pc \notin {"off", "done"})
               ~> (cons[r].pc = "done")
        /\ (~daq[r].reading /\ daq[r].thread = "alive")
               ~> (daq[r].thread = "dead")

\* ---------------------------------------------------------------- claim C24
\* The files of writer w that are open
OpenFiles(w) == {f \in 1..Len(w.files) : w.files[f].open}

\* C24: a writer never has more than one segment file open, whatever I/O
\* call fails.
C24_AtMostOneOpenFile ==
    \A r \in Runs : Cardinality(OpenFiles(writers[r])) <= 1

\* ---------------------------------------------------------------- claim C25
\* C25: no write by another thread falls between the load and the store of
\* a collection_loop thread's `current_data_size += len(data)`: when the
\* thread stores, the global still holds the value the thread loaded, so
\* the store overwrites no other thread's update.
C25_NoLostUpdate ==
    \A r \in Runs :
        cons[r].pc = "store" => cons[r].loaded = current_data_size

\* ---------------------------------------------------------------- claim C26
\* C26: the words the device's buffer held when the run started are read and
\* discarded before normal polling unless they are fewer than the flush
\* threshold: a batch that begins with the first word the device held is
\* queued only when it (and so the backlog it was read from) is below the
\* threshold.
C26_BacklogFlushedBeforePolling ==
    \A r \in Runs : \A k \in 1..Len(daq[r].data_queue) :
        daq[r].data_queue[k][1] = 1 =>
            Len(daq[r].data_queue[k]) < FlushThreshold

C28_WriterUsesConfiguredRate ==
    \A r \in Runs :
        (writers[r].created /\ daq[r].created) =>
            writers[r].sample_rate = daq[r].sample_rate

\* ---------------------------------------------------------------- claim C29
\* The sum of lens[from..to]
RECURSIVE LensTotal(_, _, _)
LensTotal(lens, from, to) ==
    IF from > to THEN 0 ELSE lens[to] + LensTotal(lens, from, to - 1)

\* The values the collection_loop thread of run r has taken from the queue
\* since the counters were last reset and has passed to
\* update_realtime_data: a batch it holds at line 356 is not yet counted.
CountedSinceStart(r) ==
    LET c == cons[r]
        n == Len(c.lens)
        last == IF c.pc = "mirror" THEN n - 1 ELSE n
    IN  LensTotal(c.lens, c.reset_at + 1, last)

RECURSIVE CountedBy(_)
CountedBy(rs) ==
    IF rs = {} THEN 0
    ELSE LET r == CHOOSE x \in rs : TRUE
         IN  CountedSinceStart(r) + CountedBy(rs \ {r})

\* C29: the sample counter that /data and /status return equals the number
\* of values taken from the queue since the start of the run and passed to
\* update_realtime_data, whether or not a preview client is active.
C29_CounterIsValuesTaken == data_counter = CountedBy(Runs)

\* ---------------------------------------------------------------- claim C30
\* The files of writer w carry strictly increasing counters, from 1 up to
\* file_counter at most.
CountersAscend(w) ==
    /\ w.file_counter >= 1
    /\ \A i \in 1..Len(w.files) :
          /\ w.files[i].counter >= 1
          /\ w.files[i].counter <= w.file_counter
          /\ \A j \in 1..Len(w.files) :
                i < j => w.files[i].counter < w.files[j].counter

\* C30: a writer's file_counter is 1 until its first rotation and every
\* rotation (update_filename) adds exactly 1 to it, whether or not the close
\* of the old file or the open of the new one fails; nothing else changes
\* it, so no two files of a run carry the same counter and the first file
\* carries 1.
C30_CountersAdvanceByOne ==
    /\ [](\A r \in Runs :
            /\ writers[r].created => CountersAscend(writers[r])
            /\ (writers[r].created /\ writers[r].handed = <<>>) =>
                  writers[r].file_counter = 1)
    /\ [][\A r \in Runs :
            LET atRotation == /\ csv_writer_instance = r
                              /\ \E c \in Runs : cons[c].pc = "rot"
                              /\ current_data_size >= target_size
                rotation == /\ atRotation
                            /\ cons' = cons
                            /\ current_data_size' = current_data_size - target_size
                fc == writers[r].file_counter
            IN  (writers[r].created /\ writers'[r].created) =>
                    /\ rotation => writers'[r].file_counter = fc + 1
                    /\ ~rotation => writers'[r].file_counter = fc]_vars

\* C30 witness: after two rotations of which one failed to open its file the
\* writer is at counter 3 with two files.
C30_Witness ==
    \E r \in Runs :
        /\ writers[r].created
        /\ writers[r].file_counter = 3
        /\ Len(writers[r].files) = 2

\* ---------------------------------------------------------------- claim C31
\* C31: whenever collection_loop is at update_realtime_data it can go on at
\* once: no /data or /status handler holds a lock that the call takes.
C31_MirrorNeverWaits ==
    \A r \in Runs : cons[r].pc = "mirror" => DataLockFree

\* ---------------------------------------------------------------- claim C32
\* C32: each step of _read_loop that evicts a batch from the full queue adds
\* one to a count kept by the driver (counter is the only count it keeps).
C32_EvictionCounted ==
    [][\A r \in Runs :
          (daq[r].pc = "evict" /\ daq'[r].pc = "put2") =>
              daq'[r].counter = daq[r].counter + 1]_vars

RunningLoops == {r \in Runs : cons[r].pc \notin {"off", "done"}}

\* C34: at most one collection_loop thread is running at any time.
C34_OneCollectionLoop == Cardinality(RunningLoops) <= 1

\* ---------------------------------------------------------------- claim C35
\* C35: while the latest response is the success of a stop request and no
\* request is being served, the writer of the stopped run holds no segment
\* file (current_file is None, as close() left it).
C35_NoOpenSegmentAfterStop ==
    (/\ response = Answer("stop", "ok")
     /\ \A h \in Handlers : handler[h].pc \in {"idle", "off"}
     /\ csv_writer_instance # 0) =>
        writers[csv_writer_instance].current_file = 0

\* ---------------------------------------------------------------- claim C36
\* C36: _read_loop increments its counter only in a step that has put the
\* batch in the queue, and it never lets go of a converted batch without
\* putting it there.
C36_EveryBatchEnqueued ==
    [][\A r \in Runs :
          /\ daq'[r].counter = daq[r].counter + 1 =>
                Len(daq'[r].data_queue) = Len(daq[r].data_queue) + 1
          /\ (daq[r].pc \in {"evict", "put2"} /\ daq'[r].pc = "top") =>
                Len(daq'[r].data_queue) = Len(daq[r].data_queue) + 1]_vars

\* ---------------------------------------------------------------- claim C37
\* C37: every pass of the rotation loop `while current_data_size >=
\* target_size` brings current_data_size nearer to the end of the loop (it
\* strictly decreases), so that the passes made for one batch are finitely
\* many, for every SaveUnit value.
C37_RotationPassesDecrease ==
    [][\A r \in Runs :
          (/\ cons[r].pc = "rot" /\ cons'[r].pc = "rot"
           /\ writers' # writers) =>
              current_data_size' < current_data_size]_vars

\* ---------------------------------------------------------------- claim C38
\* A stop request has returned success (its last step is the close() call,
\* counted in closes), no request is being served, and the latest response
\* is that of the stop or of the one start that was issued before it.
StoppedForGood ==
    /\ \E r \in Runs : writers[r].closes >= 1
    /\ \A h \in Handlers : handler[h].pc \in {"idle", "off"}
    /\ response \in {Answer("stop", "ok"), Answer("start", "ok")}
    /\ free_runs = {}

\* C38: once a stop request has returned success and no start has been
\* issued after it, no _read_loop thread is alive with its reading flag set
\* and no driver holds an open serial connection.
C38_StoppedMeansIdleDriver ==
    StoppedForGood =>
        \A r \in Runs : /\ ~(daq[r].thread = "alive" /\ daq[r].reading)
                         /\ daq[r].client = "none"

\* ---------------------------------------------------------------- claim C39
\* C39: when the latest response is the success of a start request, the
\* driver of the run has had its _read_loop thread started.
C39_StartOkMeansPolling ==
    response = Answer("start", "ok") =>
        (daq_instance # 0 /\ daq[daq_instance].thread # "none")

\* ---------------------------------------------------------------- claim C40
\* C40: the copy of the preview buffer a /data request returns holds whole
\* samples from its first value on: its length is a multiple of the channel
\* count and the value at (0-based) index i is one of channel i mod 3, when
\* the batches mirrored into the buffer are whole samples.
C40_SnapshotOnSampleBoundary ==
    \A h \in Handlers :
        handler[h].pc = "d_reply" =>
            /\ Len(handler[h].data) % CHANNEL_COUNT = 0
            /\ \A i \in 1..Len(handler[h].data) :
                  ChannelOf(handler[h].data[i]) = (i - 1) % CHANNEL_COUNT

====
